---- MODULE Spec2Model ----
(***************************************************************************)
(* Model of src/checkin.py: the multi-account check-in run.                *)
(*                                                                         *)
(*   run_main -> main -> load_accounts                                     *)
(*                    -> get_all_waf_cookies -> get_single_waf_cookies     *)
(*                    -> asyncio.gather(check_in_account ...)              *)
(*                    -> result loop, notify.push_message, sys.exit        *)
(*                                                                         *)
(* Account indices are the code's 0-based indices; Python lists are TLA+   *)
(* sequences, so list[i] is seq[i + 1].  An Optional value (None or a      *)
(* value) is a sequence of length 0 or 1.                                  *)
(***************************************************************************)
EXTENDS Integers, Sequences, FiniteSets, TLC

\* ------------------------------------------------------------------ bounds

\* Largest account list the environment supplies.
MaxAccounts == 2

\* Largest max_retries a caller of retry_async passes (SpecRetry).
MaxRetryArg == 4

\* Largest base_delay a caller of retry_async passes (SpecRetry).
MaxBaseDelay == 2

\* --------------------------------------------------------- program constants

MAX_RETRIES == 3

RETRY_BASE_DELAY == 1

WAF_COOKIE_NAMES == {"acw_tc", "cdn_sec_tc", "acw_sc__v2"}

\* The scale of get_user_info: quota = round(raw / 500000, 2).
QuotaScale == 500000

\* The literal of lines 353, 426 and 435 ("already checked in today").
AlreadyCheckedIn == "jin ri yi qian dao"

None == <<>>

Some(x) == <<x>>

\* 2 ** k, as in  base_delay * (2 ** attempt).
RECURSIVE Pow2(_)
Pow2(k) == IF k = 0 THEN 1 ELSE 2 * Pow2(k - 1)

\* ------------------------------------------------------------ configuration

\* api_user values of a JSON account entry: the empty string, a string, and a
\* JSON number (load_accounts checks only that the key is present).
ApiUserValues == {"", "str:12345", "int:12345"}

IsStr(v) == v # "int:12345"

\* Python truthiness of an api_user value (12345 and "12345" are truthy).
Truthy(v) == v # ""

\* cookies values of a JSON account entry: a k=v string, a string with no '='.
CookieValues == {"session=tok", "novalue"}

\* One element of the JSON array: a non-object, an object that lacks a
\* required key, or an object with both keys.
Entries ==
    { [shape |-> "nonobject", api_user |-> "", cookies |-> "novalue"],
      [shape |-> "missing_field", api_user |-> "", cookies |-> "novalue"] }
    \cup [shape : {"object"}, api_user : ApiUserValues, cookies : CookieValues]

RECURSIVE SeqsUpTo(_, _)
SeqsUpTo(S, n) ==
    IF n = 0 THEN { <<>> }
    ELSE LET shorter == SeqsUpTo(S, n - 1)
         IN  shorter \cup { Append(s, e) : s \in { t \in shorter : Len(t) = n - 1 }, e \in S }

\* What ANYROUTER_ACCOUNTS holds: unset (or empty), not JSON, JSON that is
\* not an array, or a JSON array.
Environments ==
    { [kind |-> k, list |-> <<>>] : k \in {"unset", "invalid_json", "not_array"} }
    \cup { [kind |-> "array", list |-> l] : l \in SeqsUpTo(Entries, MaxAccounts) }

\* load_accounts: None, or the array itself (possibly empty).
load_accounts(env) ==
    IF env.kind # "array" THEN None
    ELSE IF \E k \in 1..Len(env.list) : env.list[k].shape # "object" THEN None
    ELSE Some(env.list)

\* main's  `if not accounts`: None and [] are both falsy.
AccountsFalsy(loaded) == loaded = None \/ loaded[1] = <<>>

\* parse_cookies on a string: the k=v parts, keyed by name, valued here by the
\* owning account so that two accounts' cookies of one name differ.
parse_cookies(cookies_data, i) ==
    IF cookies_data = "session=tok" THEN [n \in {"session"} |-> <<"user", i>>]
    ELSE <<>>

\* {**a, **b}: b wins on a shared key.
MergeDicts(a, b) ==
    [n \in (DOMAIN a) \cup (DOMAIN b) |-> IF n \in DOMAIN b THEN b[n] ELSE a[n]]

\* The WAF cookie dict read from account i's browser context, restricted to
\* the names the page set.
WafDict(names, i) == [n \in names |-> <<"waf", i>>]

\* -------------------------------------------------------------------- state

VARIABLES
    env,              \* the content of ANYROUTER_ACCOUNTS
    mainPc,           \* main's position: load, harvest, create_tasks, gather, report, exited
    accounts,         \* Optional: what load_accounts returned
    exitCode,         \* Optional: the process exit code
    reports,          \* number of notify.push_message calls made
    success_count,    \* main's counter, after the result loop
    skipped_count,    \* main's counter, after the result loop
    browser,          \* none, open, closed
    browserCloses,    \* number of browser.close() calls made
    contexts,         \* number of browser contexts open
    hPc,              \* get_all_waf_cookies / get_single_waf_cookies position
    hIdx,             \* get_all_waf_cookies' i
    hAttempt,         \* get_all_waf_cookies' attempt
    hRet,             \* the value the running get_single_waf_cookies call will return
    hExc,             \* an exception is propagating out of get_all_waf_cookies
    hCalls,           \* per account, the get_single_waf_cookies calls made (until the driver returns)
    hSleeps,          \* the driver's asyncio.sleep delays, <<i, delay>>, in order (until it returns)
    waf_cookies_list, \* get_all_waf_cookies' list
    pc,               \* per account, check_in_account's position
    jar,              \* client.cookies: the shared client's cookie jar
    inflight,         \* per account, Optional: the request it awaits, with the cookies it was built with
    nGet,             \* per account, GET /api/user/self requests issued
    nPost,            \* per account, POST /api/user/sign_in requests issued
    balance_before,   \* per account, check_in_account's local
    api,              \* per account, Optional: the (success, error) do_checkin_request returned
    attempt,          \* per account, retry_async's attempt inside do_checkin_request
    postSleeps,       \* per account, retry_async's sleep delays inside do_checkin_request
    postOutcomes,     \* per account, the outcome of each POST of do_checkin_request, in order
    results,          \* per account, Optional: the task's outcome as gather collects it
    rPc,              \* retry_async alone: idle, calling, sleeping, returned, raised
    rMax,             \* retry_async alone: max_retries
    rBase,            \* retry_async alone: base_delay
    rAttempt,         \* retry_async alone: attempt
    rLast,            \* retry_async alone: last_exception
    rOutcomes,        \* retry_async alone: the outcome of each coro_func() call, in order
    rSleeps,          \* retry_async alone: the asyncio.sleep delays, in order
    rResult           \* retry_async alone: Optional: what it returned or raised

mainVars == <<env, mainPc, accounts, exitCode, reports, success_count, skipped_count>>

harvestVars ==
    <<browser, browserCloses, contexts, hPc, hIdx, hAttempt, hRet, hExc, hCalls,
      hSleeps, waf_cookies_list>>

checkinVars ==
    <<pc, jar, inflight, nGet, nPost, balance_before, api, attempt, postSleeps,
      postOutcomes, results>>

retryVars == <<rPc, rMax, rBase, rAttempt, rLast, rOutcomes, rSleeps, rResult>>

vars == <<mainVars, harvestVars, checkinVars, retryVars>>

\* len(accounts) once loaded (total_count).
N == IF accounts = None THEN 0 ELSE Len(accounts[1])

Indices == 0..(N - 1)

Account(i) == accounts[1][i + 1]

AllIdx == 0..(MaxAccounts - 1)

RetryIdle ==
    /\ rPc = "idle" /\ rMax = 0 /\ rBase = 0 /\ rAttempt = 0
    /\ rLast = None /\ rOutcomes = <<>> /\ rSleeps = <<>> /\ rResult = None

MainStart ==
    /\ mainPc = "load" /\ accounts = None /\ exitCode = None /\ reports = 0
    /\ success_count = 0 /\ skipped_count = 0
    /\ browser = "none" /\ browserCloses = 0 /\ contexts = 0 /\ hPc = "idle"
    /\ hIdx = 0 /\ hAttempt = 0 /\ hRet = None /\ hExc = FALSE
    /\ hCalls = [i \in AllIdx |-> 0] /\ hSleeps = <<>> /\ waf_cookies_list = <<>>
    /\ pc = [i \in AllIdx |-> "idle"]
    /\ jar = <<>>
    /\ inflight = [i \in AllIdx |-> None]
    /\ nGet = [i \in AllIdx |-> 0]
    /\ nPost = [i \in AllIdx |-> 0]
    /\ balance_before = [i \in AllIdx |-> None]
    /\ api = [i \in AllIdx |-> None]
    /\ attempt = [i \in AllIdx |-> 0]
    /\ postSleeps = [i \in AllIdx |-> <<>>]
    /\ postOutcomes = [i \in AllIdx |-> <<>>]
    /\ results = [i \in AllIdx |-> None]

Init ==
    /\ env \in Environments
    /\ MainStart
    /\ RetryIdle

\* --------------------------------------------------------------- run_main

\* An exception leaves main: run_main's  except Exception  prints and
\* calls sys.exit(1).
MainRaises ==
    /\ mainPc' = "exited"
    /\ exitCode' = Some(1)

\* main, lines 389-396: load the accounts or exit with 1.
LoadAccounts ==
    /\ mainPc = "load"
    /\ accounts' = load_accounts(env)
    /\ IF AccountsFalsy(load_accounts(env))
       THEN /\ mainPc' = "exited"
            /\ exitCode' = Some(1)
            /\ hPc' = hPc
       ELSE /\ mainPc' = "harvest"
            /\ exitCode' = exitCode
            /\ hPc' = "launch"
    /\ UNCHANGED <<env, reports, success_count, skipped_count>>
    /\ UNCHANGED <<browser, browserCloses, contexts, hIdx, hAttempt, hRet, hExc,
                   hCalls, hSleeps, waf_cookies_list>>
    /\ UNCHANGED <<checkinVars, retryVars>>

\* ---------------------------------------------------- get_all_waf_cookies

\* An exception propagates out of the driver's  try  (lines 189-204): its
\* finally  (browser.close(), line 207) runs next.
HarvestRaises ==
    /\ hExc' = TRUE
    /\ hPc' = "browser_close"

\* Lines 177-187: start Playwright and launch the one browser; then the first
\* account's first attempt begins (line 196).  A failed launch leaves main.
Launch(ok) ==
    /\ mainPc = "harvest" /\ hPc = "launch"
    /\ IF ok
       THEN /\ browser' = "open"
            /\ hPc' = "new_context"
            /\ hIdx' = 0
            /\ hAttempt' = 0
            /\ hCalls' = [hCalls EXCEPT ![0] = 1]
            /\ UNCHANGED <<mainPc, exitCode>>
       ELSE /\ MainRaises
            /\ hPc' = "idle"
            /\ UNCHANGED <<browser, hIdx, hAttempt, hCalls>>
    /\ UNCHANGED <<env, accounts, reports, success_count, skipped_count>>
    /\ UNCHANGED <<browserCloses, contexts, hRet, hExc, hSleeps, waf_cookies_list>>
    /\ UNCHANGED <<checkinVars, retryVars>>

\* get_single_waf_cookies, lines 129-132: browser.new_context, outside the try.
NewContext(ok) ==
    /\ mainPc = "harvest" /\ hPc = "new_context"
    /\ IF ok
       THEN /\ contexts' = contexts + 1
            /\ hPc' = "new_page"
            /\ hExc' = hExc
       ELSE /\ HarvestRaises
            /\ contexts' = contexts
    /\ UNCHANGED <<mainVars, checkinVars, retryVars>>
    /\ UNCHANGED <<browser, browserCloses, hIdx, hAttempt, hRet, hCalls, hSleeps,
                   waf_cookies_list>>

\* get_single_waf_cookies, line 134: context.new_page, outside the try.
NewPage(ok) ==
    /\ mainPc = "harvest" /\ hPc = "new_page"
    /\ IF ok
       THEN /\ hPc' = "goto"
            /\ hExc' = hExc
       ELSE HarvestRaises
    /\ UNCHANGED <<mainVars, checkinVars, retryVars>>
    /\ UNCHANGED <<browser, browserCloses, contexts, hIdx, hAttempt, hRet, hCalls,
                   hSleeps, waf_cookies_list>>

\* Line 139: page.goto; an error is caught at line 164 and the call returns None.
Goto(ok) ==
    /\ mainPc = "harvest" /\ hPc = "goto"
    /\ IF ok
       THEN /\ hPc' = "wait"
            /\ hRet' = hRet
       ELSE /\ hPc' = "ctx_close"
            /\ hRet' = None
    /\ UNCHANGED <<mainVars, checkinVars, retryVars>>
    /\ UNCHANGED <<browser, browserCloses, contexts, hIdx, hAttempt, hExc, hCalls,
                   hSleeps, waf_cookies_list>>

\* Lines 141-144: wait_for_function; on any error wait_for_timeout, whose own
\* error is caught at line 164.
WaitOutcomes == {"complete", "fallback", "fallback_raises"}

WaitLoaded(outcome) ==
    /\ mainPc = "harvest" /\ hPc = "wait"
    /\ IF outcome = "fallback_raises"
       THEN /\ hPc' = "ctx_close"
            /\ hRet' = None
       ELSE /\ hPc' = "cookies"
            /\ hRet' = hRet
    /\ UNCHANGED <<mainVars, checkinVars, retryVars>>
    /\ UNCHANGED <<browser, browserCloses, contexts, hIdx, hAttempt, hExc, hCalls,
                   hSleeps, waf_cookies_list>>

\* Lines 148-162: keep the WAF-named cookies; any missing name gives None.
FilterWafCookies(names, i) ==
    LET waf_cookies == WafDict(names \cap WAF_COOKIE_NAMES, i)
        missing_cookies == { c \in WAF_COOKIE_NAMES : c \notin DOMAIN waf_cookies }
    IN  IF missing_cookies # {} THEN None ELSE Some(waf_cookies)

\* The cookie names the context may hold after the navigation.
PageCookieNames == SUBSET (WAF_COOKIE_NAMES \cup {"other"})

\* Line 146: page.context.cookies(), then the filter; an error gives None.
ReadCookies(ok, names) ==
    /\ mainPc = "harvest" /\ hPc = "cookies"
    /\ hPc' = "ctx_close"
    /\ hRet' = IF ok THEN FilterWafCookies(names, hIdx) ELSE None
    /\ UNCHANGED <<mainVars, checkinVars, retryVars>>
    /\ UNCHANGED <<browser, browserCloses, contexts, hIdx, hAttempt, hExc, hCalls,
                   hSleeps, waf_cookies_list>>

\* Lines 197-199 with the bound off by one: the third attempt is never made.
HarvestAgainOffByOne(ret, attempt_no) == ret = None /\ attempt_no < MAX_RETRIES - 2

\* Lines 197-199: no break (the call returned no cookie set) and attempts
\* remain, so a sleep and another attempt follow.
HarvestAgain(ret, attempt_no) == ret = None /\ attempt_no < MAX_RETRIES - 1

\* Lines 167-168, then the driver's lines 197-204 up to its next await: the
\* context is closed and the call returns hRet; the driver breaks on a cookie
\* set, sleeps before another attempt, or records None after the last one.
\* An error of context.close() propagates.
CloseContext(ok) ==
    /\ mainPc = "harvest" /\ hPc = "ctx_close"
    /\ IF ~ok
       THEN /\ HarvestRaises
            /\ UNCHANGED <<contexts, hIdx, hAttempt, hCalls, hSleeps, waf_cookies_list>>
       ELSE /\ contexts' = contexts - 1
            /\ hExc' = hExc
            /\ IF HarvestAgain(hRet, hAttempt)
               THEN /\ hPc' = "sleep"
                    /\ hSleeps' = Append(hSleeps, <<hIdx, RETRY_BASE_DELAY * Pow2(hAttempt)>>)
                    /\ UNCHANGED <<hIdx, hAttempt, hCalls, waf_cookies_list>>
               ELSE /\ waf_cookies_list' = Append(waf_cookies_list, hRet)
                    /\ hSleeps' = hSleeps
                    /\ IF hIdx + 1 < N
                       THEN /\ hIdx' = hIdx + 1
                            /\ hAttempt' = 0
                            /\ hCalls' = [hCalls EXCEPT ![hIdx + 1] = 1]
                            /\ hPc' = "new_context"
                       ELSE /\ hPc' = "browser_close"
                            /\ UNCHANGED <<hIdx, hAttempt, hCalls>>
    /\ hRet' = None
    /\ UNCHANGED <<mainVars, checkinVars, retryVars>>
    /\ UNCHANGED <<browser, browserCloses>>

\* Line 202 returns: the next attempt of the same account begins.
HarvestSleepDone ==
    /\ mainPc = "harvest" /\ hPc = "sleep"
    /\ hAttempt' = hAttempt + 1
    /\ hCalls' = [hCalls EXCEPT ![hIdx] = @ + 1]
    /\ hPc' = "new_context"
    /\ UNCHANGED <<mainVars, checkinVars, retryVars>>
    /\ UNCHANGED <<browser, browserCloses, contexts, hIdx, hRet, hExc, hSleeps,
                   waf_cookies_list>>

\* The driver returning its list without the finally of lines 206-207: the
\* browser is left open.
BrowserCloseSkipped(ok) ==
    /\ mainPc = "harvest" /\ hPc = "browser_close"
    /\ hPc' = "idle"
    /\ IF ~hExc
       THEN /\ mainPc' = "create_tasks"
            /\ exitCode' = exitCode
       ELSE MainRaises
    /\ UNCHANGED <<env, accounts, reports, success_count, skipped_count>>
    /\ UNCHANGED <<browser, browserCloses>>
    /\ UNCHANGED <<contexts, hIdx, hAttempt, hRet, hExc, hCalls, hSleeps, waf_cookies_list>>
    /\ UNCHANGED <<checkinVars, retryVars>>

\* Lines 206-210: browser.close() in the finally; then the list is returned to
\* main (line 399), or the pending exception - or close's own - leaves main.
BrowserClose(ok) ==
    /\ mainPc = "harvest" /\ hPc = "browser_close"
    /\ hPc' = "idle"
    /\ browserCloses' = browserCloses + 1
    /\ browser' = IF ok THEN "closed" ELSE browser
    /\ IF ok /\ ~hExc
       THEN /\ mainPc' = "create_tasks"
            /\ exitCode' = exitCode
       ELSE MainRaises
    /\ UNCHANGED <<env, accounts, reports, success_count, skipped_count>>
    /\ UNCHANGED <<contexts, hIdx, hAttempt, hRet, hExc, hCalls, hSleeps, waf_cookies_list>>
    /\ UNCHANGED <<checkinVars, retryVars>>

Harvest ==
    \/ \E ok \in BOOLEAN : Launch(ok)
    \/ \E ok \in BOOLEAN : NewContext(ok)
    \/ \E ok \in BOOLEAN : NewPage(ok)
    \/ \E ok \in BOOLEAN : Goto(ok)
    \/ \E outcome \in WaitOutcomes : WaitLoaded(outcome)
    \/ \E ok \in BOOLEAN, names \in PageCookieNames : ReadCookies(ok, names)
    \/ \E ok \in BOOLEAN : CloseContext(ok)
    \/ HarvestSleepDone
    \/ \E ok \in BOOLEAN : BrowserClose(ok)

\* ------------------------------------------------------------ get_user_info

\* Raw quota values GET /api/user/self may report.  None is a rounding tie
\* (raw * 100 is never an odd multiple of QuotaScale / 2), so rounding half up
\* agrees with Python's round on them.
RawQuotas == {500000, 502000, 1500000}

\* round(raw / 500000, 2), in hundredths.
RoundQuota(raw) == (raw * 100 + QuotaScale \div 2) \div QuotaScale

UserInfoResponses ==
    { [kind |-> "ok", raw |-> q] : q \in RawQuotas }
    \cup { [kind |-> k, raw |-> 0] : k \in {"non_200", "not_success", "raises"} }

\* Lines 215-229: a BalanceInfo on HTTP 200 with success true, else None.
get_user_info(resp) ==
    IF resp.kind = "ok"
    THEN Some([quota |-> RoundQuota(resp.raw), used_quota |-> 0])
    ELSE None

\* The info string of a BalanceInfo: it shows the quota.
InfoStr(balance) ==
    IF balance = None THEN None ELSE Some([quota |-> balance[1].quota, note |-> ""])

\* ------------------------------------------------------- do_checkin_request

TransientErrors == {"TimeoutException", "ConnectError", "ConnectTimeout"}

\* The errors the POST raises here: one that retry_async retries, one it does not.
PostErrors == {"ConnectError", "ReadError"}

\* Bodies of a 200 response: JSON with the three flags and an optional msg, or
\* text that is not JSON, with or without the substring "success".
PostBodies ==
    [json : {TRUE}, ret1 : BOOLEAN, code0 : BOOLEAN, success : BOOLEAN,
     msg : {None, Some("quota exhausted"), Some(AlreadyCheckedIn)}, text_success : {FALSE}]
    \cup [json : {FALSE}, ret1 : {FALSE}, code0 : {FALSE}, success : {FALSE},
          msg : {None}, text_success : BOOLEAN]

PostResponses ==
    { [status |-> 200, body |-> b] : b \in PostBodies }
    \cup { [status |-> 500, body |-> CHOOSE b \in PostBodies : ~b.json /\ ~b.text_success] }

\* Lines 259-274: the (success, error) of a response.
InterpretResponse(response) ==
    IF response.status = 200
    THEN IF response.body.json
         THEN IF response.body.ret1 \/ response.body.code0 \/ response.body.success
              THEN [success |-> TRUE, error |-> None]
              ELSE [success |-> FALSE,
                    error |-> IF response.body.msg = None
                              THEN Some("unknown error")
                              ELSE response.body.msg]
         ELSE IF response.body.text_success
              THEN [success |-> TRUE, error |-> None]
              ELSE [success |-> FALSE, error |-> Some("invalid response format")]
    ELSE [success |-> FALSE, error |-> Some("HTTP 500")]

\* Lines 275-276: an exception out of retry_async becomes (False, str(e)[:100]).
InterpretException(e) == [success |-> FALSE, error |-> Some(e)]

\* --------------------------------------------------------- check_in_account

\* A cookie-less rejection (lines 295, 304, 309).
Rejected(i, error) ==
    [success |-> FALSE, account_index |-> i, user_info |-> None, error |-> Some(error),
     balance_before |-> None, balance_after |-> None]

\* What gather stores for a task that raised.
ExceptionEntry(e) == [exception |-> e]

IsException(r) == "exception" \in DOMAIN r

\* Verdict with line 344's test replaced by the API's flag: a positive
\* balance change counts only if the API also reported success.
VerdictNeedsApiFlag(before, after, api_result) ==
    LET info_after == InfoStr(after)
        info_before == InfoStr(before)
        user_info == IF info_after # None THEN info_after ELSE info_before
    IN  IF api_result.success /\ before # None /\ after # None
           /\ after[1].quota - before[1].quota > 0
        THEN [success |-> TRUE, error |-> None, user_info |-> user_info]
        ELSE IF api_result.success /\ before # None /\ after # None
        THEN [success |-> FALSE, error |-> Some(AlreadyCheckedIn), user_info |-> user_info]
        ELSE IF api_result.success
        THEN [success |-> TRUE, error |-> None, user_info |-> user_info]
        ELSE [success |-> FALSE, error |-> api_result.error, user_info |-> user_info]

\* Verdict without the balance comparison: the API's flag alone decides.
VerdictApiFlagOnly(before, after, api_result) ==
    LET info_after == InfoStr(after)
        info_before == InfoStr(before)
        user_info == IF info_after # None THEN info_after ELSE info_before
    IN  IF api_result.success
        THEN [success |-> TRUE, error |-> None, user_info |-> user_info]
        ELSE IF before # None /\ after # None /\ after[1].quota - before[1].quota > 0
        THEN [success |-> TRUE, error |-> None, user_info |-> user_info]
        ELSE [success |-> FALSE, error |-> api_result.error, user_info |-> user_info]

\* Verdict that trusts nothing it cannot verify: with a snapshot missing the
\* outcome is a failure even when the API reported success.
VerdictNoFallback(before, after, api_result) ==
    LET info_before == InfoStr(before)
        info_after == InfoStr(after)
        user_info == IF info_after # None THEN info_after ELSE info_before
    IN  IF before # None /\ after # None
        THEN LET quota_change == after[1].quota - before[1].quota
             IN  IF quota_change > 0
                 THEN [success |-> TRUE, error |-> None,
                       user_info |-> Some([quota |-> after[1].quota, note |-> "change"])]
                 ELSE IF api_result.success
                 THEN [success |-> FALSE, error |-> Some(AlreadyCheckedIn),
                       user_info |-> Some([quota |-> after[1].quota, note |-> "signed"])]
                 ELSE [success |-> FALSE, error |-> api_result.error, user_info |-> user_info]
        ELSE [success |-> FALSE,
              error |-> IF api_result.success THEN Some("unverified") ELSE api_result.error,
              user_info |-> user_info]

\* Verdict that reads a drop of the balance as a failed check-in: only an
\* unchanged balance with API success is "already checked in".
VerdictNegativeIsFailure(before, after, api_result) ==
    LET info_before == InfoStr(before)
        info_after == InfoStr(after)
        user_info == IF info_after # None THEN info_after ELSE info_before
    IN  IF before # None /\ after # None
        THEN LET quota_change == after[1].quota - before[1].quota
             IN  IF quota_change > 0
                 THEN [success |-> TRUE, error |-> None,
                       user_info |-> Some([quota |-> after[1].quota, note |-> "change"])]
                 ELSE IF api_result.success /\ quota_change = 0
                 THEN [success |-> FALSE, error |-> Some(AlreadyCheckedIn),
                       user_info |-> Some([quota |-> after[1].quota, note |-> "signed"])]
                 ELSE [success |-> FALSE,
                       error |-> IF api_result.success THEN Some("balance decreased")
                                 ELSE api_result.error,
                       user_info |-> user_info]
        ELSE IF api_result.success
        THEN [success |-> TRUE, error |-> None, user_info |-> user_info]
        ELSE [success |-> FALSE, error |-> api_result.error, user_info |-> user_info]

\* Lines 337-369: the verdict from the two snapshots and the API's answer.
Verdict(before, after, api_result) ==
    LET info_before == InfoStr(before)
        info_after == InfoStr(after)
        user_info == IF info_after # None THEN info_after ELSE info_before
    IN  IF before # None /\ after # None
        THEN LET quota_change == after[1].quota - before[1].quota
             IN  IF quota_change > 0
                 THEN [success |-> TRUE, error |-> None,
                       user_info |-> Some([quota |-> after[1].quota, note |-> "change"])]
                 ELSE IF api_result.success
                 THEN [success |-> FALSE, error |-> Some(AlreadyCheckedIn),
                       user_info |-> Some([quota |-> after[1].quota, note |-> "signed"])]
                 ELSE [success |-> FALSE, error |-> api_result.error, user_info |-> user_info]
        ELSE IF api_result.success
        THEN [success |-> TRUE, error |-> None, user_info |-> user_info]
        ELSE [success |-> FALSE, error |-> api_result.error, user_info |-> user_info]

\* CheckinResult carrying the displayed account number (i + 1) as its index.
CheckinResultDisplayIndex(i, before, after, api_result) ==
    LET v == Verdict(before, after, api_result)
    IN  [success |-> v.success, account_index |-> i + 1, user_info |-> v.user_info,
         error |-> v.error, balance_before |-> before, balance_after |-> after]

\* Lines 374-381.
CheckinResult(i, before, after, api_result) ==
    LET v == Verdict(before, after, api_result)
    IN  [success |-> v.success, account_index |-> i, user_info |-> v.user_info,
         error |-> v.error, balance_before |-> before, balance_after |-> after]

\* client.get / client.post: httpx builds the request, Cookie header included,
\* from the client's jar before it first suspends.
BuildRequest(method, cookies) == [method |-> method, cookies |-> cookies]

\* Lines 312: {**waf_cookies, **user_cookies}.
AllCookies(i) ==
    MergeDicts(waf_cookies_list[i + 1][1], parse_cookies(Account(i).cookies, i))

\* Lines 318-319: client.cookies.set for every fused cookie, on the shared jar.
SetCookies(cookie_jar, i) == MergeDicts(cookie_jar, AllCookies(i))

\* Line 372: client.cookies.clear().
ClearCookies(cookie_jar) == <<>>

\* gather wraps the coroutines in tasks in argument order and the event loop
\* runs ready tasks first in, first out: task i takes its first step after
\* every task j < i has taken its own.
MayStart(i) == pc[i] = "ready" /\ \A j \in Indices : j < i => pc[j] # "ready"

\* A response is handled by the event loop only when no task is ready to run:
\* every task has then run up to its first suspension.
MayResume(i) == \A j \in Indices : pc[j] # "ready"

\* main, lines 404-410: the tasks are created and gather is awaited; the
\* harvest driver has returned and its locals are gone.
CreateTasks ==
    /\ mainPc = "create_tasks"
    /\ mainPc' = "gather"
    /\ pc' = [i \in AllIdx |-> IF i \in Indices THEN "ready" ELSE "idle"]
    /\ hCalls' = [i \in AllIdx |-> 0]
    /\ hSleeps' = <<>>
    /\ UNCHANGED <<env, accounts, exitCode, reports, success_count, skipped_count>>
    /\ UNCHANGED <<browser, browserCloses, contexts, hPc, hIdx, hAttempt, hRet, hExc,
                   waf_cookies_list>>
    /\ UNCHANGED <<jar, inflight, nGet, nPost, balance_before, api, attempt, postSleeps,
                   postOutcomes, results>>
    /\ UNCHANGED retryVars

\* Task i returns `result` without having suspended.
ReturnEarly(i, result) ==
    /\ pc' = [pc EXCEPT ![i] = "done"]
    /\ results' = [results EXCEPT ![i] = Some(result)]
    /\ UNCHANGED <<jar, inflight, nGet, nPost>>

\* check_in_account, lines 286-322, up to the await inside the first
\* get_user_info: the three rejections, mask_sensitive (which calls len() on
\* api_user and so raises TypeError for a number), the cookies written into
\* the shared jar and the first GET built from it.
TaskStart(i) ==
    /\ mainPc = "gather" /\ i \in Indices /\ MayStart(i)
    /\ LET api_user == Account(i).api_user
           user_cookies == parse_cookies(Account(i).cookies, i)
           waf_cookies == waf_cookies_list[i + 1]
       IN  IF ~Truthy(api_user)
           THEN ReturnEarly(i, Rejected(i, "missing api_user"))
           ELSE IF ~IsStr(api_user)
           THEN /\ pc' = [pc EXCEPT ![i] = "raised"]
                /\ results' = [results EXCEPT ![i] = Some(ExceptionEntry("TypeError"))]
                /\ UNCHANGED <<jar, inflight, nGet, nPost>>
           ELSE IF DOMAIN user_cookies = {}
           THEN ReturnEarly(i, Rejected(i, "invalid cookies"))
           ELSE IF waf_cookies = None
           THEN ReturnEarly(i, Rejected(i, "WAF cookies failed"))
           ELSE /\ jar' = SetCookies(jar, i)
                /\ inflight' = [inflight EXCEPT ![i] = Some(BuildRequest("GET", SetCookies(jar, i)))]
                /\ nGet' = [nGet EXCEPT ![i] = @ + 1]
                /\ pc' = [pc EXCEPT ![i] = "get_before"]
                /\ UNCHANGED <<nPost, results>>
    /\ UNCHANGED <<balance_before, api, attempt, postSleeps, postOutcomes>>
    /\ UNCHANGED <<mainVars, harvestVars, retryVars>>

\* -------------------------------------------------------------- retry_async

\* Line 73: the exceptions retry_async catches.
IsTransient(e) == e \in TransientErrors

\* Line 75 with the bound off by one: the last retry is never made.
RetryAgainOffByOne(attempt_no, max_retries) == attempt_no < max_retries - 2

\* Line 75: whether a sleep and another attempt follow a caught exception.
RetryAgain(attempt_no, max_retries) == attempt_no < max_retries - 1

\* Line 76 with a linear backoff: base_delay * (attempt + 1).
RetryDelayLinear(base_delay, attempt_no) == base_delay * (attempt_no + 1)

\* Line 76.
RetryDelay(base_delay, attempt_no) == base_delay * Pow2(attempt_no)

\* ------------------------------------------- check_in_account, continued

\* The next request of task i is built from the jar as it is now.
Issue(i, method) ==
    /\ inflight' = [inflight EXCEPT ![i] = Some(BuildRequest(method, jar))]
    /\ IF method = "GET"
       THEN /\ nGet' = [nGet EXCEPT ![i] = @ + 1]
            /\ nPost' = nPost
       ELSE /\ nPost' = [nPost EXCEPT ![i] = @ + 1]
            /\ nGet' = nGet

\* Lines 322-328 and 251-258: the first balance probe answers; the task goes
\* on, without suspending, to the first POST of do_checkin_request.
GetBeforeReturns(i, resp) ==
    /\ mainPc = "gather" /\ i \in Indices /\ pc[i] = "get_before" /\ MayResume(i)
    /\ balance_before' = [balance_before EXCEPT ![i] = get_user_info(resp)]
    /\ attempt' = [attempt EXCEPT ![i] = 0]
    /\ Issue(i, "POST")
    /\ pc' = [pc EXCEPT ![i] = "post"]
    /\ UNCHANGED <<jar, api, postSleeps, postOutcomes, results>>
    /\ UNCHANGED <<mainVars, harvestVars, retryVars>>

\* do_checkin_request has its answer (lines 259-276); the task goes on to the
\* second balance probe (line 331).
CheckinAnswered(i, api_result) ==
    /\ api' = [api EXCEPT ![i] = Some(api_result)]
    /\ Issue(i, "GET")
    /\ pc' = [pc EXCEPT ![i] = "get_after"]
    /\ UNCHANGED <<attempt, postSleeps>>

\* How postOutcomes records a response: by its status line.
StatusLabel(response) == IF response.status = 200 THEN "status 200" ELSE "status 500"

\* retry_async treating a non-200 response like a transient error: it sleeps
\* and sends the POST again while attempts remain.
PostReturnsRetriesNon200(i, response) ==
    /\ mainPc = "gather" /\ i \in Indices /\ pc[i] = "post" /\ MayResume(i)
    /\ postOutcomes' = [postOutcomes EXCEPT ![i] = Append(@, StatusLabel(response))]
    /\ IF response.status # 200 /\ RetryAgain(attempt[i], MAX_RETRIES)
       THEN /\ postSleeps' = [postSleeps EXCEPT
                                ![i] = Append(@, RetryDelay(RETRY_BASE_DELAY, attempt[i]))]
            /\ pc' = [pc EXCEPT ![i] = "post_sleep"]
            /\ inflight' = [inflight EXCEPT ![i] = None]
            /\ UNCHANGED <<api, attempt, nGet, nPost>>
       ELSE CheckinAnswered(i, InterpretResponse(response))
    /\ UNCHANGED <<jar, balance_before, results>>
    /\ UNCHANGED <<mainVars, harvestVars, retryVars>>

\* Line 72 returns a response: retry_async returns it at once.
PostReturns(i, response) ==
    /\ mainPc = "gather" /\ i \in Indices /\ pc[i] = "post" /\ MayResume(i)
    /\ postOutcomes' = [postOutcomes EXCEPT ![i] = Append(@, StatusLabel(response))]
    /\ CheckinAnswered(i, InterpretResponse(response))
    /\ UNCHANGED <<jar, balance_before, results>>
    /\ UNCHANGED <<mainVars, harvestVars, retryVars>>

\* Line 72 raises: a transient error is retried after a sleep while attempts
\* remain, and is raised again after the last one (line 79); any other error
\* propagates at once.  do_checkin_request turns what propagates into a failure.
PostRaises(i, e) ==
    /\ mainPc = "gather" /\ i \in Indices /\ pc[i] = "post" /\ MayResume(i)
    /\ postOutcomes' = [postOutcomes EXCEPT ![i] = Append(@, e)]
    /\ IF IsTransient(e) /\ RetryAgain(attempt[i], MAX_RETRIES)
       THEN /\ postSleeps' = [postSleeps EXCEPT
                                ![i] = Append(@, RetryDelay(RETRY_BASE_DELAY, attempt[i]))]
            /\ pc' = [pc EXCEPT ![i] = "post_sleep"]
            /\ inflight' = [inflight EXCEPT ![i] = None]
            /\ UNCHANGED <<api, attempt, nGet, nPost>>
       ELSE CheckinAnswered(i, InterpretException(e))
    /\ UNCHANGED <<jar, balance_before, results>>
    /\ UNCHANGED <<mainVars, harvestVars, retryVars>>

\* Line 78 returns: the next attempt's POST is built and sent.
PostSleepDone(i) ==
    /\ mainPc = "gather" /\ i \in Indices /\ pc[i] = "post_sleep"
    /\ attempt' = [attempt EXCEPT ![i] = @ + 1]
    /\ Issue(i, "POST")
    /\ pc' = [pc EXCEPT ![i] = "post"]
    /\ UNCHANGED <<jar, balance_before, api, postSleeps, postOutcomes, results>>
    /\ UNCHANGED <<mainVars, harvestVars, retryVars>>

\* Lines 331-381: the second probe answers; the verdict is computed, the
\* shared jar is cleared and the result returned.  The task's locals end here;
\* api keeps what do_checkin_request answered.
GetAfterReturns(i, resp) ==
    /\ mainPc = "gather" /\ i \in Indices /\ pc[i] = "get_after" /\ MayResume(i)
    /\ results' = [results EXCEPT
                     ![i] = Some(CheckinResult(i, balance_before[i], get_user_info(resp),
                                               api[i][1]))]
    /\ jar' = ClearCookies(jar)
    /\ pc' = [pc EXCEPT ![i] = "done"]
    /\ inflight' = [inflight EXCEPT ![i] = None]
    /\ balance_before' = [balance_before EXCEPT ![i] = None]
    /\ attempt' = [attempt EXCEPT ![i] = 0]
    /\ postSleeps' = [postSleeps EXCEPT ![i] = <<>>]
    /\ postOutcomes' = [postOutcomes EXCEPT ![i] = <<>>]
    /\ UNCHANGED <<api, nGet, nPost>>
    /\ UNCHANGED <<mainVars, harvestVars, retryVars>>

Settled(i) == pc[i] \in {"done", "raised"}

\* gather without return_exceptions=True: a task's exception is raised by the
\* await of line 410 and leaves main.
GatherPropagates ==
    /\ mainPc = "gather"
    /\ \A i \in Indices : pc[i] \in {"done", "raised"}
    /\ IF \E i \in Indices : pc[i] = "raised"
       THEN MainRaises
       ELSE /\ mainPc' = "report"
            /\ exitCode' = exitCode
    /\ UNCHANGED <<env, accounts, reports, success_count, skipped_count>>
    /\ UNCHANGED <<harvestVars, checkinVars, retryVars>>

\* gather returning as soon as one task has returned or raised (the way
\* asyncio.wait(return_when=FIRST_COMPLETED) does).
GatherReturnsFirstCompleted ==
    /\ mainPc = "gather"
    /\ \E i \in Indices : pc[i] \in {"done", "raised"}
    /\ mainPc' = "report"
    /\ UNCHANGED <<env, accounts, exitCode, reports, success_count, skipped_count>>
    /\ UNCHANGED <<harvestVars, checkinVars, retryVars>>

\* Line 410 returns: every task has returned or raised.
GatherReturns ==
    /\ mainPc = "gather"
    /\ \A i \in Indices : Settled(i)
    /\ mainPc' = "report"
    /\ UNCHANGED <<env, accounts, exitCode, reports, success_count, skipped_count>>
    /\ UNCHANGED <<harvestVars, checkinVars, retryVars>>

\* ----------------------------------------------------------------- Reporter

\* Lines 418-430, per entry: which counter the loop increments.
CountsAsSuccess(r) == ~IsException(r) /\ r.success

CountsAsSkipped(r) == ~IsException(r) /\ ~r.success /\ r.error = Some(AlreadyCheckedIn)

\* ExitStatus that ignores the accounts already checked in.
ExitStatusSuccessOnly(successes, skipped) == IF successes > 0 THEN 0 ELSE 1

\* Line 477.
ExitStatus(successes, skipped) == IF successes > 0 \/ skipped > 0 THEN 0 ELSE 1

\* Lines 412-477, which hold no await: the result loop, the summary, one
\* notify.push_message call and sys.exit.
Report ==
    /\ mainPc = "report"
    /\ LET successes == Cardinality({ i \in Indices : CountsAsSuccess(results[i][1]) })
           skipped == Cardinality({ i \in Indices : CountsAsSkipped(results[i][1]) })
       IN  /\ success_count' = successes
           /\ skipped_count' = skipped
           /\ exitCode' = Some(ExitStatus(successes, skipped))
    /\ reports' = reports + 1
    /\ mainPc' = "exited"
    /\ UNCHANGED <<env, accounts>>
    /\ UNCHANGED <<harvestVars, checkinVars, retryVars>>

Checkin ==
    \/ CreateTasks
    \/ \E i \in AllIdx : TaskStart(i)
    \/ \E i \in AllIdx, resp \in UserInfoResponses : GetBeforeReturns(i, resp)
    \/ \E i \in AllIdx, response \in PostResponses : PostReturns(i, response)
    \/ \E i \in AllIdx, e \in PostErrors : PostRaises(i, e)
    \/ \E i \in AllIdx : PostSleepDone(i)
    \/ \E i \in AllIdx, resp \in UserInfoResponses : GetAfterReturns(i, resp)
    \/ GatherReturns

Next ==
    \/ LoadAccounts
    \/ Harvest
    \/ Checkin
    \/ Report

Spec == Init /\ [][Next]_vars

\* ------------------------------------------------- retry_async on its own

\* What one coro_func() call may raise: the three errors line 73 names and
\* two it does not.
CallErrors == TransientErrors \cup {"ReadError", "ValueError"}

\* What one coro_func() call may return.
CallValues == {"response_a", "response_b"}

InitRetry ==
    /\ env = [kind |-> "unset", list |-> <<>>]
    /\ MainStart
    /\ rPc = "enter"
    /\ rMax \in 0..MaxRetryArg
    /\ rBase \in 1..MaxBaseDelay
    /\ rAttempt = 0 /\ rLast = None /\ rOutcomes = <<>> /\ rSleeps = <<>> /\ rResult = None

\* Lines 69-70: range(max_retries) is empty for max_retries = 0, and line 79
\* then raises None, a TypeError.
RetryEnter ==
    /\ rPc = "enter"
    /\ IF rMax > 0
       THEN /\ rPc' = "calling"
            /\ rResult' = rResult
       ELSE /\ rPc' = "raised"
            /\ rResult' = Some("TypeError")
    /\ UNCHANGED <<rMax, rBase, rAttempt, rLast, rOutcomes, rSleeps>>
    /\ UNCHANGED <<mainVars, harvestVars, checkinVars>>

\* Line 72: coro_func() returns and retry_async returns its value.
RetryCallReturns(v) ==
    /\ rPc = "calling"
    /\ rOutcomes' = Append(rOutcomes, v)
    /\ rResult' = Some(v)
    /\ rPc' = "returned"
    /\ UNCHANGED <<rMax, rBase, rAttempt, rLast, rSleeps>>
    /\ UNCHANGED <<mainVars, harvestVars, checkinVars>>

\* Lines 73-79: coro_func() raises.
RetryCallRaises(e) ==
    /\ rPc = "calling"
    /\ rOutcomes' = Append(rOutcomes, e)
    /\ IF IsTransient(e)
       THEN /\ rLast' = Some(e)
            /\ IF RetryAgain(rAttempt, rMax)
               THEN /\ rSleeps' = Append(rSleeps, RetryDelay(rBase, rAttempt))
                    /\ rPc' = "sleeping"
                    /\ rResult' = rResult
               ELSE /\ rPc' = "raised"
                    /\ rResult' = Some(e)
                    /\ rSleeps' = rSleeps
       ELSE /\ rPc' = "raised"
            /\ rResult' = Some(e)
            /\ UNCHANGED <<rLast, rSleeps>>
    /\ UNCHANGED <<rMax, rBase, rAttempt>>
    /\ UNCHANGED <<mainVars, harvestVars, checkinVars>>

\* Line 78 returns: the loop's next attempt.
RetrySleepDone ==
    /\ rPc = "sleeping"
    /\ rAttempt' = rAttempt + 1
    /\ rPc' = "calling"
    /\ UNCHANGED <<rMax, rBase, rLast, rOutcomes, rSleeps, rResult>>
    /\ UNCHANGED <<mainVars, harvestVars, checkinVars>>

\* do_checkin_request, lines 257-258 and 275-276: the caller that passes the
\* default max_retries and base_delay catches what retry_async raised and
\* returns (False, str(e)[:100]).
DoCheckinRequestCatches ==
    /\ rPc = "raised" /\ rMax = MAX_RETRIES /\ rBase = RETRY_BASE_DELAY
    /\ api[0] = None
    /\ api' = [api EXCEPT ![0] = Some(InterpretException(rResult[1]))]
    /\ UNCHANGED <<pc, jar, inflight, nGet, nPost, balance_before, attempt, postSleeps,
                   postOutcomes, results>>
    /\ UNCHANGED <<mainVars, harvestVars, retryVars>>

NextRetry ==
    \/ RetryEnter
    \/ \E v \in CallValues : RetryCallReturns(v)
    \/ \E e \in CallErrors : RetryCallRaises(e)
    \/ RetrySleepDone
    \/ DoCheckinRequestCatches

SpecRetry == InitRetry /\ [][NextRetry]_vars

\* ================================================================= claims

\* gather has returned its list to main.
GatherReturned == mainPc = "report" \/ (mainPc = "exited" /\ reports > 0)

Entry(i) == results[i][1]

IsResult(i) == results[i] # None /\ ~IsException(Entry(i))

BothSnapshots(i) == Entry(i).balance_before # None /\ Entry(i).balance_after # None

QuotaChange(i) == Entry(i).balance_after[1].quota - Entry(i).balance_before[1].quota

\* C1: once gather has returned, main holds exactly N entries, one per account
\* of the input, and entry i is account i's outcome: a CheckinResult carries
\* account_index = i, an exception entry belongs to the account whose api_user
\* made the task raise, and a rejection names the defect of account i itself.
C1_ExactlyNAlignedResults ==
    GatherReturned =>
        /\ Cardinality({ i \in AllIdx : results[i] # None }) = N
        /\ \A i \in Indices :
              /\ results[i] # None
              /\ IF IsException(Entry(i))
                 THEN ~IsStr(Account(i).api_user)
                 ELSE /\ Entry(i).account_index = i
                      /\ Entry(i).error = Some("missing api_user")
                            <=> Account(i).api_user = ""
                      /\ Entry(i).error = Some("WAF cookies failed")
                            => waf_cookies_list[i + 1] = None

C1_Witness ==
    /\ mainPc = "exited" /\ reports = 1 /\ N = 2
    /\ IsException(Entry(0))
    /\ IsResult(1) /\ Entry(1).success /\ Entry(1).account_index = 1

PositiveDelta(i) == IsResult(i) /\ BothSnapshots(i) /\ QuotaChange(i) > 0

\* C2: a result whose two snapshots are present with a positive rounded
\* quota change has success = true and no error, whatever the API answered,
\* and the Reporter's success count covers every such account.
C2_PositiveDeltaIsSuccess ==
    \A i \in Indices :
        PositiveDelta(i) =>
            /\ Entry(i).success
            /\ Entry(i).error = None
            /\ mainPc = "exited" =>
                  success_count >= Cardinality({ j \in Indices : PositiveDelta(j) })

C2_Witness ==
    /\ mainPc = "exited" /\ N = 1
    /\ PositiveDelta(0)
    /\ ~api[0][1].success /\ api[0][1].error = Some(AlreadyCheckedIn)
    /\ success_count = 1 /\ exitCode = Some(0)

ZeroDeltaApiSuccess(i) ==
    IsResult(i) /\ BothSnapshots(i) /\ QuotaChange(i) = 0 /\ api[i] # None /\ api[i][1].success

\* C3: a result whose two snapshots are present with a zero quota change,
\* the API having reported success, has success = false and the "already
\* checked in today" marker as its error, and the Reporter counts every such
\* account as skipped, so none of them is in the failure count.
C3_ZeroDeltaIsAlreadyCheckedIn ==
    \A i \in Indices :
        ZeroDeltaApiSuccess(i) =>
            /\ ~Entry(i).success
            /\ Entry(i).error = Some(AlreadyCheckedIn)
            /\ mainPc = "exited" =>
                  /\ skipped_count >= Cardinality({ j \in Indices : ZeroDeltaApiSuccess(j) })
                  /\ success_count + skipped_count <= N

C3_Witness ==
    /\ mainPc = "exited" /\ N = 1
    /\ ZeroDeltaApiSuccess(0)
    /\ skipped_count = 1 /\ success_count = 0 /\ exitCode = Some(0)

\* The three defects of line 293, 302 and 307.
RejectCase(i) ==
    \/ Account(i).api_user = ""
    \/ DOMAIN parse_cookies(Account(i).cookies, i) = {}
    \/ waf_cookies_list[i + 1] = None

\* C4: an account with an empty api_user, cookie data that parses to an empty
\* mapping, or no harvested WAF cookie set gets a returned result with
\* success = false, an error, no balance snapshot, and no request issued.
C4_RejectedWithResultAndNoRequest ==
    \A i \in Indices :
        (Settled(i) /\ RejectCase(i)) =>
            /\ IsResult(i)
            /\ ~Entry(i).success
            /\ Entry(i).error # None
            /\ Entry(i).balance_before = None /\ Entry(i).balance_after = None
            /\ nGet[i] = 0 /\ nPost[i] = 0

\* The configuration cannot be loaded: unset, not JSON, not an array, an entry
\* that is no object or lacks a field, or an empty array.
Unloadable ==
    \/ env.kind # "array"
    \/ env.list = <<>>
    \/ \E k \in 1..Len(env.list) : env.list[k].shape \in {"nonobject", "missing_field"}

HardFailure(i) ==
    IsException(Entry(i)) \/ (~Entry(i).success /\ Entry(i).error # Some(AlreadyCheckedIn))

\* C5: a run that emitted its report exits with 0 exactly when some account is
\* a true success or already checked in (success_count + skipped_count > 0),
\* and with 1 exactly when every account is a hard failure; a run whose
\* configuration cannot be loaded exits with 1 with no browser launched, no
\* request issued and no report.
C5_ExitCode ==
    mainPc = "exited" =>
        /\ exitCode \in {Some(0), Some(1)}
        /\ reports > 0 =>
              /\ exitCode = Some(0) <=> success_count + skipped_count > 0
              /\ exitCode = Some(1) <=> \A i \in Indices : HardFailure(i)
        /\ Unloadable =>
              /\ exitCode = Some(1)
              /\ browser = "none" /\ browserCloses = 0 /\ reports = 0
              /\ \A i \in AllIdx : nGet[i] = 0 /\ nPost[i] = 0 /\ pc[i] = "idle"

C5_Witness ==
    /\ mainPc = "exited" /\ reports = 1 /\ N = 2
    /\ success_count = 0 /\ skipped_count = 1
    /\ exitCode = Some(0)

\* C6: every request a pipeline has in flight was built with exactly its own
\* account's fused cookie set (WAF cookies of account i merged with the user
\* cookies of account i), never with another account's values and never with
\* an emptied jar.
C6_RequestCarriesOwnCookies ==
    \A i \in Indices :
        inflight[i] # None => inflight[i][1].cookies = AllCookies(i)

\* A task exists, or has done anything, for account i.
CheckinStarted(i) ==
    pc[i] # "idle" \/ inflight[i] # None \/ nGet[i] > 0 \/ nPost[i] > 0 \/ results[i] # None

\* C7: whenever a check-in task of any account exists or has issued a
\* request, the harvest driver has returned: the browser is closed, no context
\* is open, and the harvest outcome of every one of the N accounts is recorded.
C7_HarvestCompleteBeforeCheckin ==
    \A i \in AllIdx :
        CheckinStarted(i) =>
            /\ browser = "closed" /\ browserCloses = 1
            /\ hPc = "idle" /\ contexts = 0
            /\ Len(waf_cookies_list) = N

C7_Witness ==
    /\ N = 2
    /\ pc[0] = "get_before" /\ inflight[0] # None /\ nGet[0] = 1
    /\ pc[1] = "ready"
    /\ browser = "closed"
    /\ waf_cookies_list[1] # None /\ waf_cookies_list[2] = None

Raised == { i \in Indices : pc[i] = "raised" }

\* The run ended although a task raised: the report was emitted, the raising
\* accounts are counted as failures, each sibling has its own CheckinResult.
C8_BatchSurvives ==
    (mainPc = "exited" /\ Raised # {}) =>
        /\ reports = 1
        /\ N - success_count - skipped_count >= Cardinality(Raised)
        /\ \A i \in Raised : IsException(Entry(i)) /\ HardFailure(i)
        /\ \A j \in Indices \ Raised : IsResult(j) /\ Entry(j).account_index = j

\* The step in which a task raises changes nothing its siblings read: the
\* shared jar, and every sibling's position, request, locals and result.
C8_RaiseTouchesNoSibling ==
    \A i \in AllIdx :
        (pc[i] # "raised" /\ pc'[i] = "raised") =>
            /\ jar' = jar
            /\ \A j \in AllIdx \ {i} :
                  /\ pc'[j] = pc[j] /\ inflight'[j] = inflight[j]
                  /\ balance_before'[j] = balance_before[j] /\ api'[j] = api[j]
                  /\ results'[j] = results[j]

\* C8: a check-in task that raises does not abort the batch: the run ends
\* with its report, the raising account's entry is counted as a failure
\* (neither success nor skipped), and the raise leaves every sibling's state
\* and result as they were.
C8_PartialFailureIsolation == []C8_BatchSurvives /\ [][C8_RaiseTouchesNoSibling]_vars

C8_Witness ==
    /\ mainPc = "exited" /\ reports = 1 /\ N = 2
    /\ pc[0] = "raised" /\ IsException(Entry(0))
    /\ IsResult(1) /\ Entry(1).success
    /\ success_count = 1 /\ skipped_count = 0 /\ exitCode = Some(0)

RetryEnded == rPc \in {"returned", "raised"}

LastOutcome == rOutcomes[Len(rOutcomes)]

\* C9 (SpecRetry): only a transient failure is ever followed by another call,
\* so a returned value and a non-transient error end the calls; the value
\* returned is the value the last call produced; a non-transient error is the
\* error raised, and on the first call no sleep has occurred; with
\* max_retries = 3, two transient failures are followed by a third call, with
\* sleeps of base * 1 and base * 2 in that order.
C9_RetryPolicy ==
    /\ \A k \in 1..(Len(rOutcomes) - 1) : rOutcomes[k] \in TransientErrors
    /\ (rOutcomes # <<>> /\ LastOutcome \in CallValues) =>
          rPc = "returned" /\ rResult = Some(LastOutcome)
    /\ (rOutcomes # <<>> /\ LastOutcome \notin CallValues \cup TransientErrors) =>
          /\ rPc = "raised" /\ rResult = Some(LastOutcome)
          /\ Len(rSleeps) = Len(rOutcomes) - 1
          /\ Len(rOutcomes) = 1 => rSleeps = <<>>
    /\ (RetryEnded /\ rMax = 3 /\ Len(rOutcomes) >= 2
          /\ rOutcomes[1] \in TransientErrors /\ rOutcomes[2] \in TransientErrors) =>
          /\ Len(rOutcomes) = 3
          /\ rSleeps = <<rBase * 1, rBase * 2>>

C9_Witness ==
    /\ rPc = "returned" /\ rMax = 3 /\ rBase = 2
    /\ rOutcomes = <<"TimeoutException", "ConnectTimeout", "response_a">>
    /\ rSleeps = <<2, 4>>
    /\ rResult = Some("response_a")

\* C10: a run whose configuration loaded ends having emitted exactly one
\* report, with the exit code of the exit-code contract.
C10_EveryLoadedRunReports ==
    (mainPc = "exited" /\ ~Unloadable) =>
        /\ reports = 1
        /\ exitCode = Some(IF success_count + skipped_count > 0 THEN 0 ELSE 1)

\* The Reporter (lines 412-477) has started: main is past line 410.
ReporterStarted == mainPc = "report" \/ reports > 0

\* A check-in task of account i exists and has neither returned nor raised.
InFlight(i) == pc[i] \in {"ready", "get_before", "post", "post_sleep", "get_after"}

\* C11: once the Reporter has started, every one of the N check-in tasks has
\* settled - it returned a CheckinResult or its exception was captured - and
\* has no request outstanding; and while any task is still in flight main is
\* at the gather, with no count computed, no report emitted and no exit code.
C11_ReporterAfterAllSettled ==
    /\ ReporterStarted =>
          \A i \in Indices :
              /\ Settled(i) /\ results[i] # None /\ inflight[i] = None
              /\ pc[i] = "raised" <=> IsException(Entry(i))
    /\ (\E i \in Indices : InFlight(i)) =>
          /\ mainPc = "gather"
          /\ success_count = 0 /\ skipped_count = 0
          /\ reports = 0 /\ exitCode = None

C11_Witness ==
    /\ mainPc = "exited" /\ reports = 1 /\ N = 2
    /\ pc[0] = "raised" /\ IsException(Entry(0))
    /\ pc[1] = "done" /\ IsResult(1) /\ nPost[1] = MAX_RETRIES /\ nGet[1] = 2
    /\ exitCode = Some(1)

\* Account i's pipeline ran to its verdict with at least one balance probe
\* having returned no BalanceInfo.
SnapshotMissing(i) == IsResult(i) /\ api[i] # None /\ ~BothSnapshots(i)

\* C12: a result computed with at least one balance snapshot missing has the
\* success flag do_checkin_request returned: success = true with no error when
\* the API reported success, success = false with the API's error otherwise.
C12_FallbackToApiFlag ==
    \A i \in Indices :
        SnapshotMissing(i) =>
            /\ Entry(i).success = api[i][1].success
            /\ api[i][1].success => Entry(i).error = None
            /\ ~api[i][1].success => Entry(i).error = api[i][1].error

C12_Witness ==
    /\ mainPc = "exited" /\ N = 2
    /\ SnapshotMissing(0) /\ Entry(0).balance_before = None /\ Entry(0).balance_after # None
    /\ api[0][1].success /\ Entry(0).success /\ Entry(0).error = None
    /\ SnapshotMissing(1) /\ Entry(1).balance_before # None /\ Entry(1).balance_after = None
    /\ ~api[1][1].success /\ ~Entry(1).success /\ Entry(1).error = Some("HTTP 500")
    /\ success_count = 1 /\ skipped_count = 0

\* Both snapshots present, no positive change, and the API reported failure.
ApiFailureNoGain(i) ==
    /\ IsResult(i) /\ api[i] # None /\ ~api[i][1].success
    /\ BothSnapshots(i) /\ QuotaChange(i) <= 0

\* C13: a result with both snapshots, no positive quota change and an API
\* failure is a hard failure whatever message the service sent: success =
\* false, the API's message as error, and the Reporter counts the account as
\* failed and not as skipped.
C13_ApiFailureIsHardFailure ==
    \A i \in Indices :
        ApiFailureNoGain(i) =>
            /\ ~Entry(i).success
            /\ Entry(i).error = api[i][1].error
            /\ mainPc = "exited" =>
                  /\ ~CountsAsSkipped(Entry(i))
                  /\ N - success_count - skipped_count
                        >= Cardinality({ j \in Indices : ApiFailureNoGain(j) })

\* A harvest call for account i is past browser.new_context: its page is
\* being, or has been, navigated to the login URL.
HarvestNavigating(i) ==
    mainPc = "harvest" /\ hIdx = i /\ hPc \in {"goto", "wait", "cookies", "ctx_close"}

\* C14: an account whose api_user is empty causes no network activity: no
\* harvest call and no navigation for its index, and no HTTP request; and a
\* list with a record that lacks a field launches no browser at all.
C14_RejectedBeforeNetwork ==
    /\ \A i \in Indices :
          Account(i).api_user = "" =>
              /\ hCalls[i] = 0 /\ ~HarvestNavigating(i)
              /\ nGet[i] = 0 /\ nPost[i] = 0
    /\ (\E k \in 1..Len(env.list) : env.list[k].shape = "missing_field") =>
          /\ browser = "none" /\ hPc = "idle"
          /\ \A i \in AllIdx : nGet[i] = 0 /\ nPost[i] = 0

\* Every coro_func() call made so far failed with a transient error.
AllTransient == \A k \in 1..Len(rOutcomes) : rOutcomes[k] \in TransientErrors

\* C15 (SpecRetry): with max_retries >= 1 and every call failing with a
\* transient error, the k-th failure is followed by a sleep of base * 2^(k-1)
\* while k < max_retries; retry_async ends only by raising, after exactly
\* max_retries calls and max_retries - 1 sleeps, with the last call's error;
\* and do_checkin_request turns what retry_async raised into the failure
\* (False, message) that it returns.
C15_RetryExhaustion ==
    /\ (rMax >= 1 /\ AllTransient) =>
          /\ Len(rOutcomes) <= rMax
          /\ rPc # "returned"
          /\ \A k \in 1..Len(rSleeps) : rSleeps[k] = rBase * Pow2(k - 1)
          /\ rPc = "sleeping" => Len(rSleeps) = Len(rOutcomes) /\ Len(rOutcomes) < rMax
          /\ rPc = "calling" => Len(rSleeps) = Len(rOutcomes) /\ Len(rOutcomes) < rMax
          /\ rPc = "raised" =>
                /\ Len(rOutcomes) = rMax
                /\ Len(rSleeps) = rMax - 1
                /\ rResult = Some(rOutcomes[rMax])
    /\ api[0] # None =>
          /\ rPc = "raised"
          /\ api[0][1] = [success |-> FALSE, error |-> rResult]

C15_Witness ==
    /\ rPc = "raised" /\ rMax = MAX_RETRIES /\ rBase = RETRY_BASE_DELAY
    /\ rOutcomes = <<"TimeoutException", "ConnectError", "ConnectTimeout">>
    /\ rSleeps = <<1, 2>>
    /\ rResult = Some("ConnectTimeout")
    /\ api[0] = Some([success |-> FALSE, error |-> Some("ConnectTimeout")])

\* C16: no exception leaves a get_single_waf_cookies call, whichever of its
\* steps fails (new_context, new_page, goto, the wait, reading the cookies,
\* context.close): the call returns None; and the value it returns is a cookie
\* set only when that set holds all three WAF cookie names.
C16_HarvestCallNeverRaises ==
    /\ ~hExc
    /\ hRet # None => DOMAIN hRet[1] = WAF_COOKIE_NAMES
    /\ \A k \in 1..Len(waf_cookies_list) :
          waf_cookies_list[k] # None => DOMAIN waf_cookies_list[k][1] = WAF_COOKIE_NAMES

\* A get_single_waf_cookies call is running and holds the context it created.
InHarvestCall == mainPc = "harvest" /\ hPc \in {"new_page", "goto", "wait", "cookies", "ctx_close"}

\* C17: at most one browser context is open at any time, and none is open
\* outside a running get_single_waf_cookies call: not when the next attempt or
\* the next account's harvest starts, not when the driver closes the browser,
\* and not after it.
C17_ContextAlwaysClosed ==
    /\ contexts <= 1
    /\ ~InHarvestCall => contexts = 0

\* The delays of the driver's sleeps for account i, in order.
DelaysOf(i) ==
    LET s == SelectSeq(hSleeps, LAMBDA e : e[1] = i)
    IN  [k \in 1..Len(s) |-> s[k][2]]

\* The driver is running, or has returned and main has not yet gone on.
DriverLocalsLive == mainPc \in {"harvest", "create_tasks"}

\* Accounts are harvested one at a time in index order, each with 1 to 3
\* attempts; entry i of the list belongs to account i; None is recorded only
\* after 3 attempts; the delays between an account's attempts are base * 1 and
\* base * 2; the returned list has N entries; browser.close() is called once.
C18_DriverState ==
    /\ browserCloses <= 1
    /\ (mainPc = "harvest" /\ browser = "open" /\ hPc # "browser_close") =>
          /\ Len(waf_cookies_list) = hIdx
          /\ hCalls[hIdx] = hAttempt + 1
          /\ \A j \in AllIdx : j > hIdx => hCalls[j] = 0
    /\ DriverLocalsLive =>
          /\ \A i \in AllIdx : hCalls[i] <= MAX_RETRIES
          /\ \A k \in 1..Len(waf_cookies_list) :
                /\ hCalls[k - 1] >= 1
                /\ waf_cookies_list[k] = None => hCalls[k - 1] = MAX_RETRIES
                /\ waf_cookies_list[k] # None =>
                      \A n \in DOMAIN waf_cookies_list[k][1] :
                          waf_cookies_list[k][1][n] = <<"waf", k - 1>>
                /\ DelaysOf(k - 1) =
                      SubSeq(<<RETRY_BASE_DELAY * 1, RETRY_BASE_DELAY * 2>>, 1, hCalls[k - 1] - 1)
    /\ mainPc = "create_tasks" =>
          /\ Len(waf_cookies_list) = N
          /\ browser = "closed" /\ browserCloses = 1 /\ contexts = 0
    /\ (hPc = "idle" /\ browser # "none") => browserCloses = 1
    /\ (hPc = "idle" /\ hExc) => browserCloses = 1 /\ exitCode = Some(1)

\* A sleep and a further attempt follow only a call that returned no cookie
\* set, and a cookie set returned is recorded at once for the account the
\* call was made for.
C18_DriverStep ==
    /\ hSleeps' # hSleeps /\ mainPc = "harvest" => hPc = "ctx_close" /\ hRet = None
    /\ (hPc = "ctx_close" /\ hRet # None /\ ~hExc') =>
          /\ waf_cookies_list' = Append(waf_cookies_list, hRet)
          /\ Len(waf_cookies_list') = hIdx + 1
    /\ \A i \in AllIdx :
          (mainPc' = "harvest" /\ hCalls'[i] # hCalls[i]) =>
              /\ hCalls'[i] = hCalls[i] + 1
              /\ hCalls[i] = 0 \/ hPc = "sleep"

\* C18: the harvest driver launches one browser, harvests the accounts one by
\* one in index order with at least 1 and at most 3 attempts each, stops at
\* the first attempt that yields a cookie set, sleeps base * 1 and base * 2
\* between attempts and not after the third, records None after 3 absent
\* attempts, returns N entries with entry i belonging to account i, and calls
\* browser.close() exactly once, also when an attempt raises.
C18_HarvestBatchDriver == []C18_DriverState /\ [][C18_DriverStep]_vars

C18_Witness ==
    /\ mainPc = "create_tasks" /\ N = 2
    /\ hCalls = [i \in AllIdx |-> IF i = 0 THEN 3 ELSE 2]
    /\ hSleeps = <<<<0, 1>>, <<0, 2>>, <<1, 1>>>>
    /\ waf_cookies_list[1] = None /\ waf_cookies_list[2] # None
    /\ browser = "closed" /\ browserCloses = 1

\* The pipeline of account i wrote its cookies into the shared jar (lines
\* 318-319) in this step.
WritesCookies(i) == pc[i] = "ready" /\ pc'[i] = "get_before"

\* The pipeline of account i, having written cookies, returns its result in
\* this step.
ReturnsAfterWriting(i) == pc[i] = "get_after" /\ pc'[i] = "done"

\* Every pipeline clears the jar in the step in which it returns, whatever
\* its verdict, and a pipeline writes its cookies into an empty jar.
C19_CleanupStep ==
    \A i \in AllIdx :
        /\ ReturnsAfterWriting(i) => DOMAIN jar' = {}
        /\ WritesCookies(i) => DOMAIN jar = {}

\* Once all pipelines have settled the jar is empty.
C19_EmptyWhenSettled ==
    (mainPc \in {"report", "exited"} \/ (mainPc = "gather" /\ \A i \in Indices : Settled(i)))
        => DOMAIN jar = {}

\* C19: every check_in_account invocation that wrote cookies into the shared
\* jar clears the jar before it returns, whatever the outcome; the jar is
\* empty whenever a pipeline writes its own cookies, and it is empty once all
\* pipelines have settled.
C19_CookieCleanup == []C19_EmptyWhenSettled /\ [][C19_CleanupStep]_vars

\* do_checkin_request of account i is running or has just answered.
InCheckinRequest(i) == pc[i] \in {"post", "post_sleep", "get_after"}

\* C20: a non-200 response to the POST ends do_checkin_request's attempts: it
\* is the last POST outcome, api is (False, "HTTP <status>") and the pipeline
\* is at its second balance probe; every POST outcome that was followed by
\* another POST is a transient network error; an account issues at most 3
\* POSTs, one per outcome; and a result whose API answer is that error, with
\* no positive balance change, is success = false with that error.
C20_Non200NotRetried ==
    \A i \in Indices :
        /\ nPost[i] <= MAX_RETRIES
        /\ \A k \in 1..(Len(postOutcomes[i]) - 1) : postOutcomes[i][k] \in TransientErrors
        /\ InCheckinRequest(i) =>
              nPost[i] = Len(postOutcomes[i]) + (IF pc[i] = "post" THEN 1 ELSE 0)
        /\ (postOutcomes[i] # <<>> /\ postOutcomes[i][Len(postOutcomes[i])] = "status 500") =>
              /\ pc[i] = "get_after"
              /\ api[i] = Some([success |-> FALSE, error |-> Some("HTTP 500")])
        /\ (IsResult(i) /\ api[i] # None /\ api[i][1].error = Some("HTTP 500")
              /\ ~PositiveDelta(i)) =>
              /\ ~Entry(i).success
              /\ Entry(i).error = Some("HTTP 500")

C20_Witness ==
    /\ mainPc = "exited" /\ N = 1
    /\ nPost[0] = 1 /\ nGet[0] = 2
    /\ api[0] = Some([success |-> FALSE, error |-> Some("HTTP 500")])
    /\ IsResult(0) /\ BothSnapshots(0) /\ QuotaChange(0) = 0
    /\ ~Entry(0).success /\ Entry(0).error = Some("HTTP 500")
    /\ success_count = 0 /\ skipped_count = 0 /\ exitCode = Some(1)

\* Both snapshots present, the quota lower after the check-in than before,
\* and the API reported success.
NegativeDeltaApiSuccess(i) ==
    /\ IsResult(i) /\ BothSnapshots(i) /\ QuotaChange(i) < 0
    /\ api[i] # None /\ api[i][1].success

\* C21: a result with both snapshots, a negative quota change and API success
\* is classified as the zero-change case is: success = false with the
\* "already checked in today" marker as error; the Reporter counts every such
\* account as skipped, and a run whose accounts are all of this kind exits
\* with code 0.
C21_NegativeDeltaIsAlreadyCheckedIn ==
    \A i \in Indices :
        NegativeDeltaApiSuccess(i) =>
            /\ ~Entry(i).success
            /\ Entry(i).error = Some(AlreadyCheckedIn)
            /\ mainPc = "exited" =>
                  /\ CountsAsSkipped(Entry(i))
                  /\ skipped_count
                        >= Cardinality({ j \in Indices : NegativeDeltaApiSuccess(j) })
                  /\ (\A j \in Indices : NegativeDeltaApiSuccess(j)) =>
                        /\ skipped_count = N /\ success_count = 0
                        /\ exitCode = Some(0)

C21_Witness ==
    /\ mainPc = "exited" /\ N = 2
    /\ \A j \in Indices : NegativeDeltaApiSuccess(j)
    /\ Entry(0).balance_before[1].quota = 300 /\ Entry(0).balance_after[1].quota = 100
    /\ skipped_count = 2 /\ success_count = 0 /\ exitCode = Some(0)

====
